---- MODULE Spec2Model ----
(***************************************************************************)
(* A model of cmd/web/main.go: the process start-up (main, run), the       *)
(* New Relic middleware (withNewRelic), the two route handlers and the     *)
(* log relay (contextLogger.log, contextLogger.send).                      *)
(*                                                                         *)
(* Every inbound request is a goroutine of net/http: its position is       *)
(* rpc[r], its call stack of return addresses is stack[r].  The two        *)
(* blocking calls (httpClient.Do and http.DefaultClient.Do) are split into *)
(* the issue of the call and its return, so that other goroutines and the  *)
(* cancellation of the inbound context interleave with a call in flight.   *)
(*                                                                         *)
(* Spec      is the whole server.                                          *)
(* SpecRelay enters log and send directly with arguments drawn from small  *)
(*           sets (a context without a transaction, a nil context, records *)
(*           that json cannot encode), which the server itself never       *)
(*           passes.                                                       *)
(***************************************************************************)
EXTENDS Integers, Sequences, FiniteSets, TLC

\* The number of inbound requests (of direct calls under SpecRelay).
NumRequests == 2

Requests == 1..NumRequests

----------------------------------------------------------------------------
\* Values of the environment

\* NEWRELIC_LICENSE_KEY: unset, set to a key the agent rejects, set to a key
\* it accepts.
ValidKey == "0123456789012345678901234567890123456789"
EnvKeys == {"", "short-key", ValidKey}

\* Status codes the fetched site and the log API answer with.
FetchStatuses == {200, 404}
IngestStatuses == {202, 403}

\* time.Now() in nanoseconds since the epoch (never negative).
Instants == {999999, 1234567890}

\* Transport errors of an outbound call.
DialError == "dial tcp: connection refused"
CtxCanceled == "context canceled"

FetchURL == "https://aereal.org/"
LogURL == "https://log-api.newrelic.com/log/v1"

----------------------------------------------------------------------------
\* Go values in a logBody: map[string]interface{}

Str(s) == [kind |-> "string", str |-> s, num |-> 0]
Num(n) == [kind |-> "number", str |-> "", num |-> n]
Chan == [kind |-> "chan", str |-> "", num |-> 0]

EmptyMap == [k \in {} |-> Str("")]

\* The keys of package logcontext.
KeyTimestamp == "timestamp"
KeyMessage == "message"
KeyTraceID == "trace.id"
KeyEntityName == "entity.name"

----------------------------------------------------------------------------
\* Contexts and transactions

\* A context: nil, or a context that carries a transaction (txnId # 0) or
\* none, and that is cancelled with the inbound request `owner` (0: never,
\* context.Background()).
NilCtx == [nil |-> TRUE, txnId |-> 0, owner |-> 0]
Background == [nil |-> FALSE, txnId |-> 0, owner |-> 0]
RequestCtx(r) == [nil |-> FALSE, txnId |-> 0, owner |-> r]

\* newrelic.RequestWithTransactionContext
WithTransaction(c, t) == [c EXCEPT !.txnId = t.id]

\* A *newrelic.Transaction; NoTxn is the nil pointer.
NoTxn == [id |-> 0, name |-> "", started |-> 0, ended |-> 0]

\* fmt.Sprintf("%s %s", r.Method, r.URL.Path)
TxnName(method, path) == method \o " " \o path

\* app.StartTransaction(name), for the request r
StartTransaction(r, name) == [id |-> r, name |-> name, started |-> 1, ended |-> 0]

\* txn.End()
End(t) == IF t = NoTxn THEN t ELSE [t EXCEPT !.ended = @ + 1]

\* A handler that calls txn.End() after next.ServeHTTP instead of deferring it.
EndWithoutDefer(t, panicking) == IF panicking THEN t ELSE End(t)

\* defer txn.End(): runs when the handler returns and when it panics.
TxnAfterHandler(t, panicking) == End(t)

\* txn.GetLinkingMetadata() and logcontext.AddLinkingMetadata: the fields
\* that are not empty; none for the nil transaction.
LinkingMetadata(t) ==
  IF t = NoTxn THEN EmptyMap
  ELSE [k \in {KeyTraceID, KeyEntityName} |->
          IF k = KeyTraceID THEN Str("trace-" \o ToString(t.id))
          ELSE Str("aereal-test")]

----------------------------------------------------------------------------
\* The relay: contextLogger.log and contextLogger.send

\* A log call that goes on without a transaction.
NeverSkips(t) == FALSE

\* if txn == nil { return }
LogSkips(t) == t = NoTxn

\* A timestamp in microseconds.
TimestampMicros(nanos) == nanos \div 1000

\* uint64(now.UnixNano()) / uint64(1000*1000)
Timestamp(nanos) == nanos \div (1000 * 1000)

\* data := logBody{}; AddLinkingMetadata; data[timestamp]; data[message]
LogBody(md, nanos, msg) ==
  [k \in DOMAIN md \cup {KeyTimestamp, KeyMessage} |->
     IF k = KeyTimestamp THEN Num(Timestamp(nanos))
     ELSE IF k = KeyMessage THEN Str(msg)
     ELSE md[k]]

\* detailedLog{Logs: datas}
DetailedLog(datas) == [Logs |-> datas]

\* encoding/json
Encodable(v) == v.kind \in {"string", "number"}
JSONValue(v) == [type |-> v.kind, str |-> v.str, num |-> v.num]
JSONObject(m) == [k \in DOMAIN m |-> JSONValue(m[k])]
JSONLogs(d) == [j \in 1..Len(d.Logs) |-> JSONObject(d.Logs[j])]
NoJSON == << >>
\* json.Marshal([]detailedLog{...}): the field Logs is written as "logs"
Marshal(ds) ==
  IF \E i \in 1..Len(ds) : \E j \in 1..Len(ds[i].Logs) :
       \E k \in DOMAIN ds[i].Logs[j] : ~Encodable(ds[i].Logs[j][k])
  THEN [err |-> TRUE, json |-> NoJSON]
  ELSE [err |-> FALSE, json |-> [i \in 1..Len(ds) |-> [logs |-> JSONLogs(ds[i])]]]

\* http.NewRequestWithContext fails on a nil context (the method and the URL
\* are constants that it accepts).
NoHeaders == [k \in {} |-> ""]
NoRequest == [method |-> "", url |-> "", ctx |-> NilCtx, headers |-> NoHeaders,
              body |-> NoJSON, client |-> ""]
NewRequestWithContext(c, method, url, body) ==
  IF c.nil THEN [err |-> TRUE, req |-> NoRequest]
  ELSE [err |-> FALSE,
        req |-> [method |-> method, url |-> url, ctx |-> c, headers |-> NoHeaders,
                 body |-> body, client |-> ""]]

\* req.Header.Set
HeaderSet(req, k, v) ==
  [req EXCEPT !.headers = [h \in DOMAIN req.headers \cup {k} |->
                             IF h = k THEN v ELSE req.headers[h]]]

\* A send that passes context.Background() instead of its argument.
SendCtxBackground(c) == IF c.nil THEN c ELSE Background

\* The context send builds its request with: its argument.
SendCtx(c) == c

\* send, up to the call of http.DefaultClient.Do
SendPrepare(c, key, datas) ==
  LET m == Marshal(<<DetailedLog(datas)>>)
      n == NewRequestWithContext(SendCtx(c), "POST", LogURL, m.json)
  IN IF m.err THEN [err |-> "json.Marshal: json: unsupported type", req |-> NoRequest]
     ELSE IF n.err THEN [err |-> "NewRequest: net/http: nil Context", req |-> NoRequest]
     ELSE [err |-> "",
           req |-> [HeaderSet(HeaderSet(n.req, "x-license-key", key),
                              "content-type", "application/json")
                    EXCEPT !.client = "http.DefaultClient"]]

\* The outcome of a client's Do: a response with a status, or an error.
Response(s) == [kind |-> "response", status |-> s, error |-> ""]
Failure(e) == [kind |-> "error", status |-> 0, error |-> e]

\* The error a client's Do returns: a *url.Error
UrlError(op, url, e) == op \o " \"" \o url \o "\": " \o e

\* A send that reports a status other than 2xx as an error.
SendResultStrict(o) ==
  IF o.kind = "error"
  THEN [err |-> "Do: " \o UrlError("Post", LogURL, o.error), line |-> ""]
  ELSE IF o.status \div 100 # 2
  THEN [err |-> "unexpected status " \o ToString(o.status), line |-> ""]
  ELSE [err |-> "", line |-> "post log status=" \o ToString(o.status)]

\* send, from the return of http.DefaultClient.Do
SendResult(o) ==
  IF o.kind = "error"
  THEN [err |-> "Do: " \o UrlError("Post", LogURL, o.error), line |-> ""]
  ELSE [err |-> "", line |-> "post log status=" \o ToString(o.status)]

----------------------------------------------------------------------------
\* The route handlers

NoStatus == 0
NoResponse == [status |-> 0, ctype |-> "", body |-> ""]

\* What the http.ResponseWriter holds after a write: the first write fixes
\* the status and the headers, a later one only adds to the body.
WriteResponse(old, new) ==
  IF old = NoResponse THEN new ELSE [old EXCEPT !.body = @ \o new.body]

\* fmt.Fprintln(w, "OK")
RootResponse == [status |-> 200, ctype |-> "text/plain; charset=utf-8", body |-> "OK\n"]

\* http.Error(w, msg, http.StatusInternalServerError)
ErrorResponse(msg) ==
  [status |-> 500, ctype |-> "text/plain; charset=utf-8", body |-> msg \o "\n"]

\* A handler that answers with the status of the fetched page.
ProxiedStatusResponse(s) ==
  [status |-> s, ctype |-> "application/json",
   body |-> "{\"Status\":" \o ToString(s) \o "}\n"]

\* w.Header().Set("content-type", ...); json.NewEncoder(w).Encode(struct{Status int})
FetchSuccessResponse(s) ==
  [status |-> 200, ctype |-> "application/json",
   body |-> "{\"Status\":" \o ToString(s) \o "}\n"]

\* fmt.Sprintf("done fetch: status=%d", resp.StatusCode)
DoneFetchMessage(s) == "done fetch: status=" \o ToString(s)

\* A handler that goes on to the success path after an error (no return).
FallThroughAfterError == "write"

\* return, after http.Error
PcAfterFetchError == "deferred"

\* A router that runs the /fetch handler for every path.
AlwaysFetch(path) == "fetch"

\* mux.GET("/", ...), mux.GET("/fetch", ...)
HandlerOf(path) == IF path = "/" THEN "root" ELSE "fetch"

Paths == {"/", "/fetch"}

----------------------------------------------------------------------------
\* main

\* A main that prints the error and returns.
ExitCodeLogOnly(err) == 0

\* if err := run(); err != nil { log.Fatal(err) }
ExitCode(err) == IF err # "" THEN 1 ELSE 0

\* if nrLicense == ""
LicenseMissing(key) == key = ""

\* newrelic.NewApplication rejects a license key that is not 40 characters long.
NewApplicationFails(key) == key # ValidKey

----------------------------------------------------------------------------
VARIABLES
  env,        \* the value of NEWRELIC_LICENSE_KEY
  proc,       \* where the main goroutine is
  runErr,     \* what run returned
  exitCode,   \* the exit status of the process, -1 while it runs
  app,        \* the *newrelic.Application
  apiKey,     \* cl.apiKey
  httpClient, \* the package variable httpClient
  routes,     \* the paths registered with the router
  rpc,        \* where each request's goroutine is
  path,       \* each request's path
  ctx,        \* each request's context
  txn,        \* each request's transaction
  cancelled,  \* whether each inbound request's context is cancelled
  panicking,  \* whether each request's goroutine is unwinding a panic
  stack,      \* the return addresses of each goroutine
  fetchResp,  \* resp.StatusCode in the /fetch handler
  logArgs,    \* the arguments of log, while it runs
  logNow,     \* now, in log
  sendArgs,   \* the arguments of send, while it runs
  sendErr,    \* what send returned
  outcome,    \* how http.DefaultClient.Do ended, in send
  inflight,   \* the outbound request each goroutine waits for
  response,   \* what was written to each request's http.ResponseWriter
  nGets,      \* how many outbound GETs each request issued
  nPosts,     \* how many outbound POSTs each request issued
  logOut,     \* the lines each request printed with package log
  events      \* the order of what each request did

procVars == <<env, proc, runErr, exitCode, app, apiKey, httpClient, routes>>
reqVars == <<rpc, path, ctx, txn, cancelled, panicking, stack, fetchResp>>
relayVars == <<logArgs, logNow, sendArgs, sendErr, outcome>>
outVars == <<inflight, response, nGets, nPosts, logOut, events>>
vars == <<procVars, reqVars, relayVars, outVars>>

\* var httpClient = &http.Client{...}
HTTPClientValue ==
  [Transport |-> "newrelic.NewRoundTripper(http.DefaultTransport)", Timeout |-> 0]

NoLogArgs == [ctx |-> NilCtx, msg |-> ""]
NoSendArgs == [ctx |-> NilCtx, datas |-> << >>]
NoOutcome == [kind |-> "", status |-> 0, error |-> ""]

InitRequests ==
  /\ rpc = [r \in Requests |-> "idle"]
  /\ path = [r \in Requests |-> ""]
  /\ ctx = [r \in Requests |-> NilCtx]
  /\ txn = [r \in Requests |-> NoTxn]
  /\ cancelled = [r \in Requests |-> FALSE]
  /\ panicking = [r \in Requests |-> FALSE]
  /\ stack = [r \in Requests |-> << >>]
  /\ fetchResp = [r \in Requests |-> NoStatus]
  /\ logArgs = [r \in Requests |-> NoLogArgs]
  /\ logNow = [r \in Requests |-> 0]
  /\ sendArgs = [r \in Requests |-> NoSendArgs]
  /\ sendErr = [r \in Requests |-> ""]
  /\ outcome = [r \in Requests |-> NoOutcome]
  /\ inflight = [r \in Requests |-> NoRequest]
  /\ response = [r \in Requests |-> NoResponse]
  /\ nGets = [r \in Requests |-> 0]
  /\ nPosts = [r \in Requests |-> 0]
  /\ logOut = [r \in Requests |-> << >>]
  /\ events = [r \in Requests |-> << >>]

Init ==
  /\ env \in EnvKeys
  /\ proc = "main"
  /\ runErr = ""
  /\ exitCode = -1
  /\ app = "nil"
  /\ apiKey = ""
  /\ httpClient = HTTPClientValue
  /\ routes = {}
  /\ InitRequests

----------------------------------------------------------------------------
\* Start-up: main and run

\* run returns err to main, which exits
Exit(err) ==
  /\ runErr' = err
  /\ exitCode' = ExitCode(err)
  /\ proc' = "exited"

\* main and run, up to the call of http.ListenAndServe
RunStart ==
  /\ proc = "main"
  /\ IF LicenseMissing(env)
     THEN /\ Exit("NEWRELIC_LICENSE_KEY required")
          /\ UNCHANGED <<app, apiKey, routes>>
     ELSE IF NewApplicationFails(env)
     THEN /\ Exit("cannot build new relic app: license length is not 40")
          /\ UNCHANGED <<app, apiKey, routes>>
     ELSE /\ app' = "aereal-test"
          /\ apiKey' = env
          /\ routes' = Paths
          /\ proc' = "listen"
          /\ UNCHANGED <<runErr, exitCode>>
  /\ UNCHANGED <<env, httpClient, reqVars, relayVars, outVars>>

\* http.ListenAndServe binds :8000 and serves
ListenOk ==
  /\ proc = "listen"
  /\ proc' = "serving"
  /\ UNCHANGED <<env, runErr, exitCode, app, apiKey, httpClient, routes,
                 reqVars, relayVars, outVars>>

\* http.ListenAndServe fails to bind: run returns the error
ListenFail ==
  /\ proc = "listen"
  /\ Exit("listen tcp :8000: bind: address already in use")
  /\ UNCHANGED <<env, app, apiKey, httpClient, routes, reqVars, relayVars, outVars>>

ErrServerClosed == "http: Server closed"

\* http.ListenAndServe returns while serving: run returns nil for
\* http.ErrServerClosed and the error otherwise
ServeReturn ==
  /\ proc = "serving"
  /\ \E e \in {ErrServerClosed, "accept tcp: too many open files"} :
       Exit(IF e # "" /\ e # ErrServerClosed THEN e ELSE "")
  /\ UNCHANGED <<env, app, apiKey, httpClient, routes, reqVars, relayVars, outVars>>

----------------------------------------------------------------------------
\* The goroutines of the requests

Serving == proc = "serving"
Running == proc \in {"serving", "direct"}

Push(s, pc) == <<pc>> \o s

\* ctx.Done() is closed: the inbound request the context derives from is cancelled
Cancelled(c) == IF c.nil \/ c.owner = 0 THEN FALSE ELSE cancelled[c.owner]

\* newrelic.FromContext
FromContext(c) == IF c.nil \/ c.txnId = 0 THEN NoTxn ELSE txn[c.txnId]

\* How client.Do(req) may end: with the context's error once the context is
\* cancelled, and else with a response or a transport error.
DoOutcomes(req, statuses) ==
  IF Cancelled(req.ctx) THEN {Failure(CtxCanceled)}
  ELSE {Response(s) : s \in statuses} \cup {Failure(DialError)}

\* A handler that reads the response from a variable all requests share.
RespStatusShared(r) == fetchResp[1]

\* resp.StatusCode, of the handler's own resp
RespStatus(r) == fetchResp[r]

\* Requests are numbered in the order they arrive.
InOrder(r) == IF r = 1 THEN TRUE ELSE rpc[r - 1] # "idle"

\* Direct calls are made one after the other.
InTurn(r) == IF r = 1 THEN TRUE ELSE rpc[r - 1] = "returned"

\* net/http accepts a connection and routes the request.
Accept(r) ==
  /\ Serving
  /\ rpc[r] = "idle"
  /\ InOrder(r)
  /\ \E p \in routes : path' = [path EXCEPT ![r] = p]
  /\ ctx' = [ctx EXCEPT ![r] = RequestCtx(r)]
  /\ rpc' = [rpc EXCEPT ![r] = "middleware"]
  /\ UNCHANGED <<procVars, txn, cancelled, panicking, stack, fetchResp,
                 relayVars, outVars>>

\* withNewRelic, up to next.ServeHTTP(w, r)
Middleware(r) ==
  /\ Serving
  /\ rpc[r] = "middleware"
  /\ LET t == StartTransaction(r, TxnName("GET", path[r]))
     IN /\ txn' = [txn EXCEPT ![r] = t]
        /\ ctx' = [ctx EXCEPT ![r] = WithTransaction(@, t)]
  /\ events' = [events EXCEPT ![r] = Append(@, "txn_start")]
  /\ rpc' = [rpc EXCEPT ![r] = "handler"]
  /\ UNCHANGED <<procVars, path, cancelled, panicking, stack, fetchResp,
                 relayVars, inflight, response, nGets, nPosts, logOut>>

\* next.ServeHTTP panics: the goroutine unwinds through the deferred call
HandlerPanic(r) ==
  /\ Serving
  /\ rpc[r] = "handler"
  /\ panicking' = [panicking EXCEPT ![r] = TRUE]
  /\ rpc' = [rpc EXCEPT ![r] = "deferred"]
  /\ UNCHANGED <<procVars, path, ctx, txn, cancelled, stack, fetchResp,
                 relayVars, outVars>>

\* GET /
Root(r) ==
  /\ Serving
  /\ rpc[r] = "handler"
  /\ HandlerOf(path[r]) = "root"
  /\ response' = [response EXCEPT ![r] = WriteResponse(@, RootResponse)]
  /\ events' = [events EXCEPT ![r] = Append(@, "write")]
  /\ rpc' = [rpc EXCEPT ![r] = "deferred"]
  /\ UNCHANGED <<procVars, path, ctx, txn, cancelled, panicking, stack, fetchResp,
                 relayVars, inflight, nGets, nPosts, logOut>>

\* GET /fetch, up to the call of httpClient.Do
FetchStart(r) ==
  /\ Serving
  /\ rpc[r] = "handler"
  /\ HandlerOf(path[r]) = "fetch"
  /\ LET n == NewRequestWithContext(ctx[r], "GET", FetchURL, NoJSON)
     IN IF n.err
        THEN /\ response' = [response EXCEPT ![r] =
                  WriteResponse(@, ErrorResponse("cannot build request: net/http: nil Context"))]
             /\ events' = [events EXCEPT ![r] = Append(@, "write_error")]
             /\ rpc' = [rpc EXCEPT ![r] = PcAfterFetchError]
             /\ UNCHANGED <<inflight, nGets>>
        ELSE /\ inflight' = [inflight EXCEPT ![r] = [n.req EXCEPT !.client = "httpClient"]]
             /\ nGets' = [nGets EXCEPT ![r] = @ + 1]
             /\ events' = [events EXCEPT ![r] = Append(@, "fetch")]
             /\ rpc' = [rpc EXCEPT ![r] = "fetch_wait"]
             /\ UNCHANGED response
  /\ UNCHANGED <<procVars, path, ctx, txn, cancelled, panicking, stack, fetchResp,
                 relayVars, nPosts, logOut>>

\* GET /fetch, from the return of httpClient.Do to the call of cl.log
FetchReturn(r) ==
  /\ Serving
  /\ rpc[r] = "fetch_wait"
  /\ inflight' = [inflight EXCEPT ![r] = NoRequest]
  /\ \E o \in DoOutcomes(inflight[r], FetchStatuses) :
       IF o.kind = "error"
       THEN /\ response' = [response EXCEPT ![r] =
                 WriteResponse(@, ErrorResponse("failed to send request: "
                                                \o UrlError("Get", FetchURL, o.error)))]
            /\ events' = [events EXCEPT ![r] = Append(@, "write_error")]
            /\ rpc' = [rpc EXCEPT ![r] = PcAfterFetchError]
            /\ UNCHANGED <<fetchResp, logArgs, stack>>
       ELSE /\ fetchResp' = [fetchResp EXCEPT ![r] = o.status]
            /\ logArgs' = [logArgs EXCEPT ![r] =
                 [ctx |-> ctx[r], msg |-> DoneFetchMessage(o.status)]]
            /\ stack' = [stack EXCEPT ![r] = Push(@, "write")]
            /\ rpc' = [rpc EXCEPT ![r] = "log"]
            /\ UNCHANGED <<response, events>>
  /\ UNCHANGED <<procVars, path, ctx, txn, cancelled, panicking,
                 logNow, sendArgs, sendErr, outcome, nGets, nPosts, logOut>>

\* GET /fetch, after cl.log: the content type and the JSON body
Write(r) ==
  /\ Serving
  /\ rpc[r] = "write"
  /\ response' = [response EXCEPT ![r] =
       WriteResponse(@, FetchSuccessResponse(RespStatus(r)))]
  /\ events' = [events EXCEPT ![r] = Append(@, "write")]
  /\ rpc' = [rpc EXCEPT ![r] = "deferred"]
  /\ UNCHANGED <<procVars, path, ctx, txn, cancelled, panicking, stack, fetchResp,
                 relayVars, inflight, nGets, nPosts, logOut>>

\* withNewRelic, after next.ServeHTTP: the deferred txn.End(); a panic goes on
\* to net/http, which recovers it and closes the connection
Deferred(r) ==
  /\ Serving
  /\ rpc[r] = "deferred"
  /\ LET t == TxnAfterHandler(txn[r], panicking[r])
     IN /\ txn' = [txn EXCEPT ![r] = t]
        /\ events' = [events EXCEPT ![r] =
             IF t.ended # txn[r].ended THEN Append(@, "txn_end") ELSE @]
  /\ rpc' = [rpc EXCEPT ![r] = IF panicking[r] THEN "aborted" ELSE "done"]
  /\ UNCHANGED <<procVars, path, ctx, cancelled, panicking, stack, fetchResp,
                 relayVars, inflight, response, nGets, nPosts, logOut>>

\* Where a goroutine is when it has yet to read its context: past these, the
\* code never looks at the context again.
ReadsContext == {"middleware", "handler", "fetch_wait", "log", "send", "send_wait"}

\* The client goes away or the request's deadline passes, while the request
\* is being served and its context is still to be read
Cancel(r) ==
  /\ Running
  /\ rpc[r] \in ReadsContext
  /\ ~cancelled[r]
  /\ cancelled' = [cancelled EXCEPT ![r] = TRUE]
  /\ UNCHANGED <<procVars, rpc, path, ctx, txn, panicking, stack, fetchResp,
                 relayVars, outVars>>

----------------------------------------------------------------------------
\* The relay

\* log, up to the call of l.send
Log(r) ==
  /\ Running
  /\ rpc[r] = "log"
  /\ LET t == FromContext(logArgs[r].ctx)
     IN IF LogSkips(t)
        THEN /\ rpc' = [rpc EXCEPT ![r] = Head(stack[r])]
             /\ stack' = [stack EXCEPT ![r] = Tail(@)]
             /\ logArgs' = [logArgs EXCEPT ![r] = NoLogArgs]
             /\ UNCHANGED <<logNow, sendArgs>>
        ELSE \E now \in Instants :
               /\ logNow' = [logNow EXCEPT ![r] = now]
               /\ sendArgs' = [sendArgs EXCEPT ![r] =
                    [ctx |-> logArgs[r].ctx,
                     datas |-> <<LogBody(LinkingMetadata(t), now, logArgs[r].msg)>>]]
               /\ stack' = [stack EXCEPT ![r] = Push(@, "log_ret")]
               /\ rpc' = [rpc EXCEPT ![r] = "send"]
               /\ UNCHANGED logArgs
  /\ events' = [events EXCEPT ![r] = Append(@, "log")]
  /\ UNCHANGED <<procVars, path, ctx, txn, cancelled, panicking, fetchResp,
                 sendErr, outcome, inflight, response, nGets, nPosts, logOut>>

\* send, up to the call of http.DefaultClient.Do
Send(r) ==
  /\ Running
  /\ rpc[r] = "send"
  /\ LET p == SendPrepare(sendArgs[r].ctx, apiKey, sendArgs[r].datas)
     IN IF p.err # ""
        THEN /\ sendErr' = [sendErr EXCEPT ![r] = p.err]
             /\ rpc' = [rpc EXCEPT ![r] = Head(stack[r])]
             /\ stack' = [stack EXCEPT ![r] = Tail(@)]
             /\ events' = [events EXCEPT ![r] = Append(@, "send")]
             /\ UNCHANGED <<inflight, nPosts>>
        ELSE /\ inflight' = [inflight EXCEPT ![r] = p.req]
             /\ nPosts' = [nPosts EXCEPT ![r] = @ + 1]
             /\ events' = [events EXCEPT ![r] = Append(Append(@, "send"), "post")]
             /\ rpc' = [rpc EXCEPT ![r] = "send_wait"]
             /\ UNCHANGED <<sendErr, stack>>
  /\ UNCHANGED <<procVars, path, ctx, txn, cancelled, panicking, fetchResp,
                 logArgs, logNow, sendArgs, outcome, response, nGets, logOut>>

\* send, from the return of http.DefaultClient.Do
SendReturn(r) ==
  /\ Running
  /\ rpc[r] = "send_wait"
  /\ \E o \in DoOutcomes(inflight[r], IngestStatuses) :
       LET res == SendResult(o)
       IN /\ outcome' = [outcome EXCEPT ![r] = o]
          /\ sendErr' = [sendErr EXCEPT ![r] = res.err]
          /\ logOut' = [logOut EXCEPT ![r] =
               IF res.line # "" THEN Append(@, res.line) ELSE @]
  /\ inflight' = [inflight EXCEPT ![r] = NoRequest]
  /\ rpc' = [rpc EXCEPT ![r] = Head(stack[r])]
  /\ stack' = [stack EXCEPT ![r] = Tail(@)]
  /\ UNCHANGED <<procVars, path, ctx, txn, cancelled, panicking, fetchResp,
                 logArgs, logNow, sendArgs, response, nGets, nPosts, events>>

\* log, after l.send: the error is printed and dropped
LogReturn(r) ==
  /\ Running
  /\ rpc[r] = "log_ret"
  /\ logOut' = [logOut EXCEPT ![r] =
       IF sendErr[r] # "" THEN Append(@, "! error=" \o sendErr[r]) ELSE @]
  /\ logArgs' = [logArgs EXCEPT ![r] = NoLogArgs]
  /\ logNow' = [logNow EXCEPT ![r] = 0]
  /\ sendArgs' = [sendArgs EXCEPT ![r] = NoSendArgs]
  /\ sendErr' = [sendErr EXCEPT ![r] = ""]
  /\ outcome' = [outcome EXCEPT ![r] = NoOutcome]
  /\ rpc' = [rpc EXCEPT ![r] = Head(stack[r])]
  /\ stack' = [stack EXCEPT ![r] = Tail(@)]
  /\ UNCHANGED <<procVars, path, ctx, txn, cancelled, panicking, fetchResp,
                 inflight, response, nGets, nPosts, events>>

----------------------------------------------------------------------------
\* Direct calls of the relay

Messages == {"hello", DoneFetchMessage(200)}

PlainRecord == LogBody(EmptyMap, 1234567890, "hello")
ChanRecord == [k \in DOMAIN PlainRecord \cup {"ch"} |->
                 IF k = "ch" THEN Chan ELSE PlainRecord[k]]
Batches == {<< >>, <<PlainRecord>>, <<PlainRecord, PlainRecord>>, <<ChanRecord>>}

\* l.log(c, msg) with a context that carries a transaction or none
CallLog(r) ==
  /\ proc = "direct"
  /\ rpc[r] = "idle"
  /\ InTurn(r)
  /\ \E withTxn \in BOOLEAN, c \in {Background, RequestCtx(r)}, msg \in Messages :
       LET t == IF withTxn THEN StartTransaction(r, "direct") ELSE NoTxn
           c2 == IF withTxn THEN WithTransaction(c, t) ELSE c
       IN /\ txn' = [txn EXCEPT ![r] = t]
          /\ ctx' = [ctx EXCEPT ![r] = c2]
          /\ logArgs' = [logArgs EXCEPT ![r] = [ctx |-> c2, msg |-> msg]]
  /\ stack' = [stack EXCEPT ![r] = <<"returned">>]
  /\ rpc' = [rpc EXCEPT ![r] = "log"]
  /\ UNCHANGED <<procVars, path, cancelled, panicking, fetchResp,
                 logNow, sendArgs, sendErr, outcome, outVars>>

\* l.send(c, datas) with any context and any records
CallSend(r) ==
  /\ proc = "direct"
  /\ rpc[r] = "idle"
  /\ InTurn(r)
  /\ \E c \in {NilCtx, Background, RequestCtx(r)}, datas \in Batches :
       /\ ctx' = [ctx EXCEPT ![r] = c]
       /\ sendArgs' = [sendArgs EXCEPT ![r] = [ctx |-> c, datas |-> datas]]
  /\ stack' = [stack EXCEPT ![r] = <<"returned">>]
  /\ rpc' = [rpc EXCEPT ![r] = "send"]
  /\ UNCHANGED <<procVars, path, txn, cancelled, panicking, fetchResp,
                 logArgs, logNow, sendErr, outcome, outVars>>

InitRelay ==
  /\ env = ValidKey
  /\ proc = "direct"
  /\ runErr = ""
  /\ exitCode = -1
  /\ app = "aereal-test"
  /\ apiKey = ValidKey
  /\ httpClient = HTTPClientValue
  /\ routes = {}
  /\ InitRequests

----------------------------------------------------------------------------
Next ==
  \/ RunStart
  \/ ListenOk
  \/ ListenFail
  \/ ServeReturn
  \/ \E r \in Requests :
       \/ Accept(r)
       \/ Middleware(r)
       \/ HandlerPanic(r)
       \/ Root(r)
       \/ FetchStart(r)
       \/ FetchReturn(r)
       \/ Write(r)
       \/ Deferred(r)
       \/ Cancel(r)
       \/ Log(r)
       \/ Send(r)
       \/ SendReturn(r)
       \/ LogReturn(r)

Spec == Init /\ [][Next]_vars

NextRelay ==
  \E r \in Requests :
    \/ CallLog(r)
    \/ CallSend(r)
    \/ Cancel(r)
    \/ Log(r)
    \/ Send(r)
    \/ SendReturn(r)
    \/ LogReturn(r)

SpecRelay == InitRelay /\ [][NextRelay]_vars

----------------------------------------------------------------------------
\* Properties

Has(seq, e) == \E i \in 1..Len(seq) : seq[i] = e
IsPrefix(s, t) == Len(s) <= Len(t) /\ \A i \in 1..Len(s) : s[i] = t[i]

\* The call of slot r is (or was) a call of log, and its context carries a
\* transaction or none.
LogCalled(r) == rpc[r] = "log" \/ Has(events[r], "log")
CarriesTxn(r) == ~ctx[r].nil /\ ctx[r].txnId # 0

\* C1: a call of log whose context carries no transaction issues no POST: it
\* never enters send, never has a request in flight, and counts no POST.
C1_NoTxnNoPost ==
  \A r \in Requests :
    (LogCalled(r) /\ ~CarriesTxn(r)) =>
      /\ nPosts[r] = 0
      /\ inflight[r] = NoRequest
      /\ ~Has(events[r], "send")
      /\ rpc[r] \in {"log", "returned"}

C1_Witness ==
  \E r \in Requests :
    /\ Has(events[r], "log")
    /\ ~CarriesTxn(r)
    /\ rpc[r] = "returned"
    /\ nPosts[r] = 0

\* C2: the transaction a request's middleware started is ended exactly once
\* when the handler is left, by return or by panic: it is open while the
\* handler runs, and ended once, never twice, when the request has finished.
C2_TxnEndedOnce ==
  \A r \in Requests :
    /\ txn[r].ended <= 1
    /\ rpc[r] \in {"handler", "fetch_wait", "log", "send", "send_wait",
                   "log_ret", "write", "deferred"}
         => (txn[r].started = 1 /\ txn[r].ended = 0)
    /\ rpc[r] \in {"done", "aborted"}
         => (txn[r].started = 1 /\ txn[r].ended = 1)

C2_Witness ==
  /\ \E r \in Requests : rpc[r] = "aborted" /\ panicking[r] /\ txn[r].ended = 1
  /\ \E r \in Requests : rpc[r] = "done" /\ response[r].status = 500 /\ txn[r].ended = 1

\* The body json.Encoder writes for struct{ Status int }.
StatusBody(s) ==
  IF s = 200 THEN "{\"Status\":200}\n"
  ELSE IF s = 404 THEN "{\"Status\":404}\n"
  ELSE "?"

\* C3: a /fetch request whose fetch answered with status S is answered with
\* status 200 and the body {"Status": S}, however the relay call ended;
\* nothing else is written before that.
C3_FetchSuccessResponse ==
  \A r \in Requests :
    fetchResp[r] # NoStatus =>
      /\ rpc[r] \in {"log", "send", "send_wait", "log_ret", "write"}
           => response[r] = NoResponse
      /\ rpc[r] \in {"deferred", "done"}
           => /\ response[r].status = 200
              /\ response[r].ctype = "application/json"
              /\ response[r].body = StatusBody(fetchResp[r])

C3_Witness ==
  /\ \E r \in Requests :
       /\ rpc[r] = "done" /\ fetchResp[r] = 404 /\ response[r].status = 200
       /\ logOut[r] = <<"! error=Do: Post \"https://log-api.newrelic.com/log/v1\": dial tcp: connection refused">>
  /\ \E r \in Requests :
       /\ rpc[r] = "done" /\ fetchResp[r] = 200 /\ response[r].status = 200
       /\ logOut[r] = <<"post log status=403">>

FetchFailed(r) == Has(events[r], "write_error")

\* C4: a /fetch request whose outbound request cannot be built or sent is
\* answered with status 500 and a diagnostic text; the handler returns there:
\* it calls no relay and writes no JSON body.
C4_FetchFailureResponse ==
  \A r \in Requests :
    FetchFailed(r) =>
      /\ response[r].status = 500
      /\ response[r].body \in
           {"cannot build request: net/http: nil Context\n",
            "failed to send request: Get \"https://aereal.org/\": dial tcp: connection refused\n",
            "failed to send request: Get \"https://aereal.org/\": context canceled\n"}
      /\ rpc[r] \in {"deferred", "done"}
      /\ ~Has(events[r], "write")
      /\ ~Has(events[r], "log")
      /\ nPosts[r] = 0

C4_Witness ==
  \E r \in Requests :
    /\ rpc[r] = "done"
    /\ response[r].status = 500
    /\ response[r].body =
         "failed to send request: Get \"https://aereal.org/\": dial tcp: connection refused\n"

\* C5: a call of log whose context carries a transaction issues exactly one
\* POST; its body is an array of one object whose key "logs" holds an array of
\* one record, and the record holds the time in whole milliseconds and the
\* message given.
C5_OnePostOneRecord ==
  \A r \in Requests :
    (LogCalled(r) /\ CarriesTxn(r)) =>
      /\ nPosts[r] <= 1
      /\ rpc[r] \in {"log_ret", "returned", "write", "deferred", "done"} => nPosts[r] = 1
      /\ rpc[r] = "send_wait" =>
           LET req == inflight[r]
               body == req.body
           IN /\ nPosts[r] = 1
              /\ req.method = "POST"
              /\ req.url = LogURL
              /\ Len(body) = 1
              /\ DOMAIN body[1] = {"logs"}
              /\ Len(body[1].logs) = 1
              /\ {"timestamp", "message"} \subseteq DOMAIN body[1].logs[1]
              /\ body[1].logs[1]["message"].type = "string"
              /\ body[1].logs[1]["message"].str = logArgs[r].msg
              /\ body[1].logs[1]["timestamp"].type = "number"
              /\ LET ms == body[1].logs[1]["timestamp"].num
                 IN ms * 1000000 <= logNow[r] /\ logNow[r] < (ms + 1) * 1000000

C5_Witness ==
  \E r \in Requests :
    /\ CarriesTxn(r)
    /\ Has(events[r], "post")
    /\ rpc[r] = "returned"
    /\ nPosts[r] = 1

\* A call of send has returned and its caller has yet to go on.
SendReturned(r) ==
  /\ Has(events[r], "send")
  /\ \/ rpc[r] = "log_ret"
     \/ rpc[r] = "returned" /\ ~Has(events[r], "log")

Unencodable(datas) ==
  \E i \in 1..Len(datas) : \E k \in DOMAIN datas[i] : datas[i][k].kind = "chan"

\* C6: send returns nil whenever the log API answered, whatever the status,
\* and returns an error only when the records cannot be encoded, the request
\* cannot be built or the call fails.
C6_SendErrorOnlyOnFailure ==
  \A r \in Requests :
    SendReturned(r) =>
      /\ outcome[r].kind = "response" => sendErr[r] = ""
      /\ sendErr[r] # "" =>
           \/ Unencodable(sendArgs[r].datas)
           \/ sendArgs[r].ctx.nil
           \/ outcome[r].kind = "error"
      /\ sendErr[r] = "" => outcome[r].kind = "response"

C6_Witness ==
  \E r \in Requests :
    /\ SendReturned(r)
    /\ outcome[r] = Response(403)
    /\ sendErr[r] = ""

\* C7: with the license key unset the process exits with status 1 from the
\* first step of run: it never builds the application, registers no route,
\* never listens and serves no request.
C7_MissingLicenseExits ==
  env = "" =>
    /\ proc \in {"main", "exited"}
    /\ app = "nil"
    /\ routes = {}
    /\ \A r \in Requests : rpc[r] = "idle"
    /\ proc = "exited" => (exitCode = 1 /\ runErr = "NEWRELIC_LICENSE_KEY required")

C7_Witness == env = "" /\ proc = "exited" /\ exitCode = 1

\* Concurrent requests have a transaction each, started and ended once,
\* issue at most one POST each, and are answered with the status of their own
\* fetch; no request changes the application, the API key, the HTTP client or
\* the routes.
C8_RequestsIndependentState ==
  \A r \in Requests :
    /\ txn[r] # NoTxn => (txn[r].id = r /\ txn[r].started = 1 /\ txn[r].ended <= 1)
    /\ rpc[r] \in {"done", "aborted"} => txn[r].ended = 1
    /\ ctx[r].txnId \in {0, r}
    /\ \A q \in Requests : (q # r /\ txn[q] # NoTxn) => txn[q] # txn[r]
    /\ nPosts[r] <= 1
    /\ (rpc[r] \in {"deferred", "done"} /\ fetchResp[r] # NoStatus)
         => response[r].body = StatusBody(fetchResp[r])

C8_SharedUnchanged ==
  proc = "serving" =>
    <<app, apiKey, httpClient, routes>>' = <<app, apiKey, httpClient, routes>>

\* C8: under every interleaving of the requests, each request keeps to its own
\* transaction, POST and fetched status, and the state the requests share is
\* left as start-up set it.
C8_Independent == []C8_RequestsIndependentState /\ [][C8_SharedUnchanged]_vars

C8_Witness ==
  \E r, q \in Requests :
    /\ rpc[r] = "write" /\ fetchResp[r] = 200
    /\ rpc[q] = "done" /\ fetchResp[q] = 404
    /\ response[q].body = StatusBody(404)

\* The orders in which a request to a path does what it does.
Orders(p) ==
  IF p = "/"
  THEN {<<"txn_start", "write", "txn_end">>,
        <<"txn_start", "txn_end">>}
  ELSE {<<"txn_start", "fetch", "log", "send", "post", "write", "txn_end">>,
        <<"txn_start", "fetch", "write_error", "txn_end">>,
        <<"txn_start", "txn_end">>}

\* C9: a request starts its transaction, then (on /fetch) fetches once, then
\* posts at most once, then writes its answer, then ends its transaction; a
\* POST is issued only after the request's fetch succeeded and before its
\* transaction ends; GET / and a failed fetch issue no POST.
C9_EventOrder ==
  \A r \in Requests :
    /\ rpc[r] \notin {"idle", "middleware"} =>
         \E o \in Orders(path[r]) : IsPrefix(events[r], o)
    /\ rpc[r] \in {"done", "aborted"} => events[r] \in Orders(path[r])
    /\ nGets[r] <= 1
    /\ nPosts[r] <= 1
    /\ path[r] = "/" => (nGets[r] = 0 /\ nPosts[r] = 0)
    /\ nPosts[r] = 1 => (nGets[r] = 1 /\ fetchResp[r] # NoStatus)
    /\ rpc[r] = "send_wait" => (txn[r].ended = 0 /\ response[r] = NoResponse)

C9_Witness ==
  /\ \E r \in Requests :
       events[r] = <<"txn_start", "fetch", "log", "send", "post", "write", "txn_end">>
  /\ \E r \in Requests : events[r] = <<"txn_start", "write", "txn_end">>

\* An outbound call in flight belongs to a running request and carries that
\* request's context.
C10_CallsCarryRequestContext ==
  \A r \in Requests :
    /\ inflight[r] # NoRequest <=> rpc[r] \in {"fetch_wait", "send_wait"}
    /\ inflight[r] # NoRequest => (~inflight[r].ctx.nil /\ inflight[r].ctx.owner = r)

\* The end of an outbound call whose inbound request is cancelled.
C10_CancelledCallAborts ==
  \A r \in Requests :
    /\ (rpc[r] = "fetch_wait" /\ cancelled[r] /\ rpc'[r] # "fetch_wait")
         => /\ rpc'[r] = "deferred"
            /\ response'[r].status = 500
            /\ nPosts'[r] = 0
    /\ (rpc[r] = "send_wait" /\ cancelled[r] /\ rpc'[r] # "send_wait")
         => /\ rpc'[r] = "log_ret"
            /\ outcome'[r] = Failure(CtxCanceled)
            /\ sendErr'[r] # ""
    /\ (rpc[r] = "log_ret" /\ sendErr[r] # "" /\ rpc'[r] # "log_ret")
         => /\ rpc'[r] = "write"
            /\ logOut'[r] = Append(logOut[r], "! error=" \o sendErr[r])

\* C10: both outbound calls carry the inbound request's context, and the
\* cancellation of the inbound request aborts the call in flight: a cancelled
\* fetch ends in the 500 answer without a POST, a cancelled POST ends as an
\* error that log prints and drops; no call is in flight for a finished request.
C10_CancellationPropagates ==
  []C10_CallsCarryRequestContext /\ [][C10_CancelledCallAborts]_vars

C10_Witness ==
  /\ \E r \in Requests :
       /\ rpc[r] = "done" /\ cancelled[r] /\ fetchResp[r] # NoStatus
       /\ logOut[r] = <<"! error=Do: Post \"https://log-api.newrelic.com/log/v1\": context canceled">>
  /\ \E r \in Requests :
       /\ rpc[r] = "done" /\ cancelled[r] /\ nPosts[r] = 0
       /\ response[r].body = "failed to send request: Get \"https://aereal.org/\": context canceled\n"

====
